---- MODULE Spec2Model ----
(***************************************************************************)
(* Poker bankroll tracker (src/bankrollManagement.py): the SQLite store    *)
(* (rooms, sessions, edits_history), the Streamlit handlers that write it  *)
(* and the per-room reconciliation of sparse sessions into a daily series. *)
(*                                                                         *)
(* Dates are day ordinals: the program stores str(date), ISO 'YYYY-MM-DD'  *)
(* text whose lexicographic order (the SQL comparisons, ORDER BY date) is  *)
(* the calendar order, and pd.date_range steps one calendar day.  Money is *)
(* in whole units.                                                         *)
(***************************************************************************)
EXTENDS Integers, Sequences, FiniteSets, TLC

VARIABLES rooms, sessions, edits_history, session_to_edit, call, given, recon, conns

vars == <<rooms, sessions, edits_history, session_to_edit, call, given, recon, conns>>

(* ------------------------------ bounds --------------------------------- *)

MaxHistory == 2
MaxGridDay == 2
MaxRuns == 3

(* the dates the forms are given, and the days of a reconciliation *)
Days == {0, 1}
GridDays == 0..MaxGridDay

(* setup_rooms offers a fixed list of room names; these two of it *)
RoomNames == {"Winamax", "PokerStars"}

(* initial bankrolls (>= 0), and what a session form is filled with:        *)
(* tournaments >= 0, a deposit or a withdrawal, bankroll >= 0               *)
Bankrolls == {3}
InitialBankrolls == {0, 3}
Forms == {[tournaments |-> 1, cashflow |-> 2, bankroll |-> 5],
          [tournaments |-> 2, cashflow |-> 0 - 1, bankroll |-> 0]}

(* ------------------------- pandas cells and columns -------------------- *)

(* A cell of a DataFrame column: a number, or NaN (missing after reindex). *)
NaN == [na |-> TRUE, v |-> 0]
Num(x) == [na |-> FALSE, v |-> x]
isna(c) == c.na

(* Float arithmetic: NaN propagates. *)
Minus(a, b) == IF a.na \/ b.na THEN NaN ELSE Num(a.v - b.v)

(* Series.fillna(0) *)
fillna0(c) == IF c.na THEN Num(0) ELSE c

(* Series.ffill(): each NaN takes the last non-NaN value before it, if any. *)
RECURSIVE ffill(_)
ffill(col) ==
  IF Len(col) = 0 THEN col
  ELSE LET head == ffill(SubSeq(col, 1, Len(col) - 1))
           last == col[Len(col)]
       IN  IF last.na /\ Len(head) > 0
           THEN Append(head, head[Len(head)])
           ELSE Append(head, last)

(* Series.shift(1): every value moves one row down; the first row is NaN. *)
shift1(col) == [i \in 1..Len(col) |-> IF i = 1 THEN NaN ELSE col[i - 1]]

(* pd.date_range(start, end, freq='D'): empty when end < start. *)
date_range_mutant(start, end) ==
  IF end <= start THEN <<>> ELSE [i \in 1..(end - start) |-> start + (i - 1)]
date_range(start, end) ==
  IF end < start THEN <<>> ELSE [i \in 1..(end - start + 1) |-> start + (i - 1)]

(* sessions_df.set_index('date').reindex(full_date_range): one row per grid *)
(* day, the session's values where a session has that date, NaN elsewhere;  *)
(* sessions whose date is off the grid are dropped.                         *)
reindex(sessions_df, full_date_range) ==
  [i \in 1..Len(full_date_range) |->
     LET d == full_date_range[i]
         hit == {k \in 1..Len(sessions_df) : sessions_df[k].date = d}
     IN  IF hit = {}
         THEN [date |-> d, bankroll |-> NaN, cashflow |-> NaN, tournaments |-> NaN]
         ELSE LET k == CHOOSE k \in hit : TRUE
              IN  [date |-> d,
                   bankroll |-> Num(sessions_df[k].bankroll),
                   cashflow |-> Num(sessions_df[k].cashflow),
                   tournaments |-> Num(sessions_df[k].tournaments)]]

(* df['bankroll'].iloc[0] = initial_bankroll is a chained assignment: it    *)
(* writes through to df where pandas hands out a view of the column, and    *)
(* writes to a temporary copy, leaving df as it was, under Copy-on-Write    *)
(* (the only mode from pandas 3.0 on).  copy_on_write is the build.         *)
seed_first(column, initial_bankroll, copy_on_write) ==
  IF isna(column[1]) /\ ~copy_on_write
  THEN [k \in 1..Len(column) |-> IF k = 1 THEN Num(initial_bankroll) ELSE column[k]]
  ELSE column

(* shifted_bankroll: the bankroll of the day before; the first day is       *)
(* compared with the initial bankroll.                                      *)
shifted_bankroll(column, initial_bankroll) ==
  LET shifted == shift1(column)
  IN  [k \in 1..Len(shifted) |-> IF k = 1 THEN Num(initial_bankroll) ELSE shifted[k]]

(* process_room_data: .iloc[0] of an empty column raises IndexError.        *)
process_room_data(sessions_df, initial_bankroll, init_date, end_date, copy_on_write) ==
  LET full_date_range == date_range(init_date, end_date)
      df == reindex(sessions_df, full_date_range)
      n == Len(df)
  IN  IF n = 0
      THEN [status |-> "IndexError", data |-> <<>>]
      ELSE LET df_bankroll == ffill(seed_first([i \in 1..n |-> df[i].bankroll],
                                               initial_bankroll, copy_on_write))
               df_cashflow == [i \in 1..n |-> fillna0(df[i].cashflow)]
               df_tournaments == [i \in 1..n |-> fillna0(df[i].tournaments)]
               shifted == shifted_bankroll(df_bankroll, initial_bankroll)
           IN  [status |-> "ok",
                data |-> [i \in 1..n |->
                   [date |-> df[i].date,
                    bankroll |-> df_bankroll[i],
                    cashflow |-> df_cashflow[i],
                    tournaments |-> df_tournaments[i],
                    pure_profit |-> Minus(Minus(df_bankroll[i], df_cashflow[i]), shifted[i])]]]

(* ------------------------------ the store ------------------------------ *)

Max(S) == CHOOSE x \in S : \A y \in S : y <= x

(* INTEGER PRIMARY KEY without AUTOINCREMENT: a new row gets the largest    *)
(* rowid in the table plus one, so the id of a deleted last row is reused.  *)
new_rowid(table) == IF table = {} THEN 1 ELSE Max({row.id : row \in table}) + 1

(* Python's None where a number is expected. *)
None == 0 - 1

(* The text columns of edits_history: str() of a row, tuple or dict keeps   *)
(* every field; the fixed strings are kept as their own kind.               *)
Text(s) == [kind |-> s]
str_session(s) ==
  [kind |-> "session", id |-> s.id, room_id |-> s.room_id, date |-> s.date,
   tournaments |-> s.tournaments, cashflow |-> s.cashflow, bankroll |-> s.bankroll]
str_room(r) ==
  [kind |-> "room", id |-> r.id, name |-> r.name,
   initial_bankroll |-> r.initial_bankroll, init_date |-> r.init_date]

edit(table_name, record_id, old_value, new_value, user_action) ==
  [table_name |-> table_name, record_id |-> record_id, old_value |-> old_value,
   new_value |-> new_value, user_action |-> user_action]

(* INSERT INTO edits_history: the new row goes after the rows of the table *)
insert_edit_mutant(history, entry) == <<entry>>
insert_edit(history, entry) == Append(history, entry)

(* ORDER BY date over rows of one room (their dates are distinct) *)
RECURSIVE order_by_date(_)
order_by_date(rows) ==
  IF rows = {} THEN <<>>
  ELSE LET first == CHOOSE r \in rows : \A q \in rows : r.date <= q.date
       IN  <<first>> \o order_by_date(rows \ {first})

(* UNIQUE(room_id, date): the row, other than `except_id`, that already     *)
(* holds the key.                                                           *)
conflicting(ss, except_id, room_id, date) ==
  {s \in ss : s.id # except_id /\ s.room_id = room_id /\ s.date = date}

(* ------------------------------ room_stats ----------------------------- *)

(* SELECT date, bankroll, cashflow, tournaments FROM sessions               *)
(* WHERE room_id = .. AND date >= init_date ORDER BY date                   *)
room_stats_query(ss, room_id, init_date) ==
  LET rows == order_by_date({s \in ss : s.room_id = room_id /\ s.date >= init_date})
  IN  [k \in 1..Len(rows) |->
         [date |-> rows[k].date, bankroll |-> rows[k].bankroll,
          cashflow |-> rows[k].cashflow, tournaments |-> rows[k].tournaments]]

room_stats_data(ss, room, today, copy_on_write) ==
  process_room_data(room_stats_query(ss, room.id, room.init_date),
                    room.initial_bankroll, room.init_date, today, copy_on_write)

(* The calendar of the day ordinals: day 0 is Sunday 2025-01-05, the 5th    *)
(* day of its year; every day of the model and of its week labels lies in   *)
(* 2025.  weekday is Timestamp.weekday(): Monday is 0, Sunday 6.            *)
Day0 == [year |-> 2025, yday |-> 5, weekday |-> 6]
weekday(d) == (Day0.weekday + d) % 7
yday(d) == Day0.yday + d
year(d) == Day0.year

(* resample('W-MON'): weekly bins anchored on Monday, closed and labelled    *)
(* on the right: a day falls in the bin of the first Monday on or after it. *)
W_MON(d) == d + ((7 - weekday(d)) % 7)

(* strftime('%U'): week of the year with Sunday as first day of the week;   *)
(* the days before the year's first Sunday are in week 0.                   *)
strftime_U(d) == ((yday(d) - 1) + 7 - ((weekday(d) + 1) % 7)) \div 7

(* .agg({'pure_profit': 'sum'}): the sum of a bin skips NaN *)
RECURSIVE sum_skipna(_)
sum_skipna(col) ==
  IF Len(col) = 0 THEN 0
  ELSE (IF col[Len(col)].na THEN 0 ELSE col[Len(col)].v)
       + sum_skipna(SubSeq(col, 1, Len(col) - 1))

RECURSIVE select_rows(_, _)
select_rows(data, keep) ==
  IF Len(data) = 0 THEN <<>>
  ELSE LET rest == select_rows(SubSeq(data, 1, Len(data) - 1), keep)
       IN  IF data[Len(data)].date \in keep THEN Append(rest, data[Len(data)]) ELSE rest

(* grouped_profit for "Hebdomadaire": one row per Monday from the bin of    *)
(* the first day to the bin of the last, with the sum of its days'          *)
(* pure_profit and date_label = strftime('Sem. %U %Y') of that Monday.      *)
resample_W_MON(data) ==
  IF Len(data) = 0 THEN <<>>
  ELSE LET first == W_MON(data[1].date)
           last == W_MON(data[Len(data)].date)
       IN  [k \in 1..(((last - first) \div 7) + 1) |->
              LET monday == first + 7 * (k - 1)
                  rows == select_rows(data, {d \in (monday - 6)..monday : TRUE})
              IN  [date |-> monday,
                   pure_profit |-> Num(sum_skipna([i \in 1..Len(rows) |-> rows[i].pure_profit])),
                   date_label |-> [week |-> strftime_U(monday), year |-> year(monday)]]]

(* ------------------------------ global_stats --------------------------- *)

Min(S) == CHOOSE x \in S : \A y \in S : x <= y

(* the rows of SELECT .. FROM rooms, in rowid order *)
RECURSIVE order_by_id(_)
order_by_id(rows) ==
  IF rows = {} THEN <<>>
  ELSE LET first == CHOOSE r \in rows : \A q \in rows : r.id <= q.id
       IN  <<first>> \o order_by_id(rows \ {first})

(* the dates of a frame in increasing order, each once (the groupby keys) *)
RECURSIVE ascending(_)
ascending(S) == IF S = {} THEN <<>> ELSE <<Min(S)>> \o ascending(S \ {Min(S)})

(* full_date_range: from the earliest room init_date or session date (today *)
(* when there is no session) up to today                                    *)
global_date_range(rs, ss, today) ==
  LET min_date_room == Min({r.init_date : r \in rs})
      min_date_session == IF ss = {} THEN today ELSE Min({x.date : x \in ss})
      min_overall_date == IF min_date_room <= min_date_session
                          THEN min_date_room ELSE min_date_session
  IN  date_range(min_overall_date, today)

(* full_date_range[full_date_range >= room_init_date] *)
room_specific_date_range_mutant(full_date_range, room_init_date) == full_date_range
room_specific_date_range(full_date_range, room_init_date) ==
  SelectSeq(full_date_range, LAMBDA d : d >= room_init_date)

(* The body of the loop over the rooms: the room's daily series computed    *)
(* inline from all its sessions, <<>> when no date of the range is the      *)
(* room's (the room is skipped).  The first row is seeded by the same       *)
(* chained assignment as in process_room_data; the first previous bankroll  *)
(* is set when the range starts on the room's init_date.                    *)
global_room_series(ss, room, full_date_range, copy_on_write) ==
  LET range == room_specific_date_range(full_date_range, room.init_date)
      original_room_sessions_df == order_by_date({x \in ss : x.room_id = room.id})
      df == reindex(original_room_sessions_df, range)
      n == Len(df)
  IN  IF n = 0 THEN <<>>
      ELSE LET df_bankroll == ffill(seed_first([i \in 1..n |-> df[i].bankroll],
                                               room.initial_bankroll, copy_on_write))
               df_cashflow == [i \in 1..n |-> fillna0(df[i].cashflow)]
               df_tournaments == [i \in 1..n |-> fillna0(df[i].tournaments)]
               shifted == IF range[1] = room.init_date
                          THEN shifted_bankroll(df_bankroll, room.initial_bankroll)
                          ELSE shift1(df_bankroll)
           IN  [i \in 1..n |->
                  [date |-> df[i].date,
                   bankroll |-> df_bankroll[i],
                   cashflow |-> df_cashflow[i],
                   tournaments |-> df_tournaments[i],
                   pure_profit |-> Minus(Minus(df_bankroll[i], df_cashflow[i]), shifted[i])]]

(* pd.concat(processed_room_dfs) for the rooms in the order given *)
RECURSIVE concat_rooms(_, _, _, _)
concat_rooms(room_list, ss, full_date_range, copy_on_write) ==
  IF Len(room_list) = 0 THEN <<>>
  ELSE global_room_series(ss, room_list[1], full_date_range, copy_on_write)
       \o concat_rooms(Tail(room_list), ss, full_date_range, copy_on_write)

(* df_global.groupby('date').agg(sum ..): one row per date, the sums skip NaN *)
groupby_date(df_global) ==
  LET dates == ascending({df_global[i].date : i \in 1..Len(df_global)})
  IN  [k \in 1..Len(dates) |->
         LET rows == select_rows(df_global, {dates[k]})
         IN  [date |-> dates[k],
              total_bankroll |-> Num(sum_skipna([i \in 1..Len(rows) |-> rows[i].bankroll])),
              pure_profit |-> Num(sum_skipna([i \in 1..Len(rows) |-> rows[i].pure_profit])),
              total_tournaments |->
                Num(sum_skipna([i \in 1..Len(rows) |-> rows[i].tournaments]))]]

(* global_stats for the rooms in the order room_list: a warning when there  *)
(* is no room or no room has a date; else the per-room series, the daily    *)
(* totals and the "Profit Net" metric (the sum of the totals' pure_profit). *)
global_stats(room_list, ss, today, copy_on_write) ==
  LET rs == {room_list[i] : i \in 1..Len(room_list)}
      none == [status |-> "warning", rooms |-> <<>>, data |-> <<>>, profit_net |-> 0]
  IN  IF rs = {} THEN none
      ELSE LET full_date_range == global_date_range(rs, ss, today)
               df_global == concat_rooms(room_list, ss, full_date_range, copy_on_write)
               data == groupby_date(df_global)
           IN  IF Len(df_global) = 0 THEN none
               ELSE [status |-> "ok",
                     rooms |-> [id \in {r.id : r \in rs} |->
                                  global_room_series(ss, CHOOSE r \in rs : r.id = id,
                                                     full_date_range, copy_on_write)],
                     data |-> data,
                     profit_net |-> sum_skipna([k \in 1..Len(data) |-> data[k].pure_profit])]

(* -------------------- the session_history query, dashboard ------------- *)

(* LAG(expr, 1, default) OVER (PARTITION BY s.room_id ORDER BY s.date): the  *)
(* session of the same room with the nearest earlier date, if any           *)
lag_row(ss, s) ==
  LET before == {x \in ss : x.room_id = s.room_id /\ x.date < s.date}
  IN  IF before = {} THEN {}
      ELSE {CHOOSE x \in before : \A y \in before : y.date <= x.date}

(* The history query: one row per session that has a room (the rooms named  *)
(* by room_filter, or all of them), with                                    *)
(*   session_profit = bankroll - LAG(bankroll, 1, initial_bankroll)         *)
(*   pure_profit = (bankroll - cashflow)                                    *)
(*                 - LAG(bankroll - cashflow, 1, initial_bankroll)          *)
session_history_query(ss, rs, room_filter) ==
  LET joined == {j \in [s : ss, r : rs] :
                   /\ j.s.room_id = j.r.id
                   /\ room_filter # "Toutes" => j.r.name = room_filter}
      rows == {j.s : j \in joined}
  IN  {[id |-> j.s.id, room |-> j.r.name, date |-> j.s.date,
        tournaments |-> j.s.tournaments, cashflow |-> j.s.cashflow,
        bankroll |-> j.s.bankroll,
        session_profit |->
          j.s.bankroll - (IF lag_row(rows, j.s) = {} THEN j.r.initial_bankroll
                          ELSE (CHOOSE x \in lag_row(rows, j.s) : TRUE).bankroll),
        pure_profit |->
          (j.s.bankroll - j.s.cashflow)
          - (IF lag_row(rows, j.s) = {} THEN j.r.initial_bankroll
             ELSE LET x == CHOOSE x \in lag_row(rows, j.s) : TRUE
                  IN  x.bankroll - x.cashflow)] : j \in joined}

(* The dashboard query: per room the bankroll of its session with the       *)
(* latest date (the initial bankroll when it has none), the sum of its      *)
(* sessions' cashflow, and                                                  *)
(*   net_profit = (current_bankroll - total_cashflow) - initial_bankroll;   *)
(* total_net_profit is the sum of the rooms' net_profit.                    *)
dashboard_rows(ss, rs) ==
  {LET mine == {x \in ss : x.room_id = r.id}
       current_bankroll == IF mine = {} THEN r.initial_bankroll
                           ELSE (CHOOSE x \in mine : \A y \in mine : y.date <= x.date).bankroll
       total_cashflow == LET rows == order_by_date(mine)
                         IN  sum_skipna([i \in 1..Len(rows) |-> Num(rows[i].cashflow)])
   IN  [name |-> r.name, initial_bankroll |-> r.initial_bankroll,
        current_bankroll |-> current_bankroll,
        total_sessions |-> Cardinality(mine),
        gross_profit |-> current_bankroll - r.initial_bankroll,
        net_profit |-> (current_bankroll - total_cashflow) - r.initial_bankroll] : r \in rs}

dashboard(ss, rs) ==
  IF rs = {} THEN [status |-> "warning", rows |-> {}, total_net_profit |-> 0]
  ELSE LET rows == order_by_id({[id |-> r.id, row |-> CHOOSE d \in dashboard_rows(ss, {r}) : TRUE]
                                 : r \in rs})
       IN  [status |-> "ok", rows |-> dashboard_rows(ss, rs),
            total_net_profit |-> sum_skipna([i \in 1..Len(rows) |-> Num(rows[i].row.net_profit)])]

(* ------------------------------ add_session ---------------------------- *)

(* INSERT .. ON CONFLICT(room_id, date) DO UPDATE SET                       *)
(*   tournaments = tournaments + excluded.tournaments,                      *)
(*   cashflow = cashflow + excluded.cashflow, bankroll = excluded.bankroll  *)
upsert_mutant(ss, room_id, date, tournaments, cashflow, bankroll) ==
  LET hit == conflicting(ss, None, room_id, date)
  IN  (ss \ hit) \cup
        {[id |-> IF hit = {} THEN new_rowid(ss) ELSE (CHOOSE s \in hit : TRUE).id,
          room_id |-> room_id, date |-> date, tournaments |-> tournaments,
          cashflow |-> cashflow, bankroll |-> bankroll]}
upsert(ss, room_id, date, tournaments, cashflow, bankroll) ==
  LET hit == conflicting(ss, None, room_id, date)
  IN  IF hit = {}
      THEN ss \cup {[id |-> new_rowid(ss), room_id |-> room_id, date |-> date,
                     tournaments |-> tournaments, cashflow |-> cashflow,
                     bankroll |-> bankroll]}
      ELSE {IF s \in hit
            THEN [s EXCEPT !.tournaments = @ + tournaments,
                           !.cashflow = @ + cashflow,
                           !.bankroll = bankroll]
            ELSE s : s \in ss}

(* c_write.lastrowid after the upsert: sqlite3_last_insert_rowid() of the   *)
(* connection.  conn_write is a new connection, so it is the new row's id   *)
(* after an insert and 0 when the DO UPDATE branch ran; it is never None.   *)
lastrowid(ss, room_id, date) ==
  IF conflicting(ss, None, room_id, date) = {} THEN new_rowid(ss) ELSE 0

(* The edits_history row add_session writes after the upsert. *)
add_session_edit(before, after, room_id, date, tournaments, cashflow, bankroll) ==
  LET rowid == lastrowid(before, room_id, date)
      existing_session_query == {s \in after : s.room_id = room_id /\ s.date = date}
      session_id == IF rowid = None
                    THEN (CHOOSE s \in existing_session_query : TRUE).id
                    ELSE rowid
      action_type == IF rowid = None THEN "UPDATE" ELSE "CREATE"
      old_value_str == IF action_type = "CREATE"
                       THEN Text("INITIAL_INSERT")
                       ELSE Text("PREVIOUS_STATE_NOT_CAPTURED")
      new_value_dict == [kind |-> "dict", date |-> date, tournaments |-> tournaments,
                         cashflow |-> cashflow, bankroll |-> bankroll]
  IN  edit("sessions", session_id, old_value_str, new_value_dict, action_type)

(* except Exception: conn_write.rollback() *)
rollback_mutant(before, staged) == staged
rollback(before, staged) == before

(* Where a statement of the transaction can raise (database locked, I/O):   *)
(* the upsert, the edits_history insert, the commit.                        *)
Failures == {"none", "upsert", "history", "commit"}

(* The write transaction of add_session on db = [sessions, edits_history].  *)
add_session_tx(db, room_id, date, tournaments, cashflow, bankroll, fail) ==
  LET upserted == [db EXCEPT !.sessions =
                     upsert(@, room_id, date, tournaments, cashflow, bankroll)]
      logged == [upserted EXCEPT !.edits_history =
                   insert_edit(@, add_session_edit(db.sessions, upserted.sessions, room_id,
                                              date, tournaments, cashflow, bankroll))]
  IN  CASE fail = "none" -> logged
        [] fail = "upsert" -> rollback(db, db)
        [] fail = "history" -> rollback(db, upserted)
        [] fail = "commit" -> rollback(db, logged)

(* the last handler run: the room or session id and the date it was given,  *)
(* and what it reported (st.success, st.warning, st.error)                  *)
Call(op, outcome, id, date) ==
  [op |-> op, outcome |-> outcome, id |-> id, date |-> date]

(* the values given to the store for each session row, as the handlers      *)
(* received them: add_session adds to them, every other write sets them     *)
Given(tournaments, cashflow, bankroll, calls) ==
  [tournaments |-> tournaments, cashflow |-> cashflow, bankroll |-> bankroll,
   calls |-> calls]

(* the sum of f over the set S *)
RECURSIVE SumOf(_, _)
SumOf(f, S) ==
  IF S = {} THEN 0
  ELSE LET x == CHOOSE x \in S : TRUE IN f[x] + SumOf(f, S \ {x})

(* ------------------------- users and connections ----------------------- *)

(* The users of the app, each in a browser session of their own: Streamlit  *)
(* runs the script of each in its own thread, on connections of its own.    *)
Users == {"u1", "u2"}
OneUser == "u1"

(* The script run of a user.  pc: how far it is; tx: its connection is in a *)
(* write transaction, between the first INSERT, UPDATE or DELETE and the    *)
(* commit or rollback; runs: the runs it has      *)
(* begun; rooms: the list of rooms   *)
(* its first connection read; id, read: the id a SELECT of a handler was    *)
(* given and the rows it returned.  For add_session: conn_write, open with  *)
(* a transaction under way (pc: the statement done last), the values of the *)
(* form it was opened for, and what the transaction has staged.             *)
Closed(pc) ==
  [pc |-> pc, tx |-> FALSE, runs |-> 0, rooms |-> {}, read |-> {}, id |-> 0, room_id |-> 0, date |-> 0, tournaments |-> 0, cashflow |-> 0,
   bankroll |-> 0, staged |-> [sessions |-> {}, edits_history |-> <<>>], order |-> 0]
NoConns == [u \in Users |-> Closed("closed")]

(* the connection of u closed, its run over *)
Ended(cs, u, pc) == [cs EXCEPT ![u] = [Closed(pc) EXCEPT !.runs = cs[u].runs]]

(* the script runs begun so far, and whether one more may begin *)
MayBegin(cs) == SumOf([u \in Users |-> cs[u].runs], Users) < MaxRuns

(* a run begins: the page has read the list of rooms *)
Begun(cs, u, pc, rs) ==
  [cs EXCEPT ![u] = [Closed(pc) EXCEPT !.runs = cs[u].runs + 1, !.rooms = rs]]

(* st.session_state.session_to_edit of each browser session: nothing loaded *)
NoEdit == [u \in Users |-> Text("None")]

(* The first INSERT, UPDATE or DELETE of a connection opens its transaction: *)
(* with it the connection takes the write lock of the database file, which  *)
(* one connection holds at a time, and keeps it until its commit or         *)
(* rollback, while the script threads of the other users run; a            *)
(* statement of another connection that needs it waits, and raises          *)
(* OperationalError "database is locked" when the timeout of                *)
(* sqlite3.connect passes first.                                            *)
database_locked_mutant(cs, u) == FALSE
database_locked(cs, u) == \E v \in DOMAIN cs \ {u} : cs[v].tx

AddSession(room, date, tournaments, cashflow, bankroll, fail) ==
  /\ room \in rooms
  /\ LET db == [sessions |-> sessions, edits_history |-> edits_history]
         out == add_session_tx(db, room.id, date, tournaments, cashflow, bankroll, fail)
         hit == conflicting(sessions, None, room.id, date)
     IN  /\ sessions' = out.sessions
         /\ edits_history' = out.edits_history
         /\ call' = Call("add_session", IF fail = "none" THEN "success" ELSE "error",
                         room.id, date)
         /\ given' =
              IF fail # "none" THEN given
              ELSE IF hit = {}
              THEN (new_rowid(sessions) :> Given(tournaments, cashflow, bankroll, 1)) @@ given
              ELSE LET id == (CHOOSE s \in hit : TRUE).id
                   IN  [given EXCEPT ![id] =
                          Given(@.tournaments + tournaments, @.cashflow + cashflow,
                                bankroll, @.calls + 1)]
  /\ UNCHANGED <<rooms, session_to_edit, recon, conns>>

(* ------------------------------ setup_rooms ---------------------------- *)

(* INSERT INTO rooms, then the initial session (0 tournaments, 0 cashflow,  *)
(* the initial bankroll) at init_date.  A taken name (name TEXT UNIQUE) or  *)
(* a taken (room_id, date) raises IntegrityError: nothing is committed.     *)
(* "database is locked" is no IntegrityError: the exception leaves the      *)
(* handler.  setup_rooms writes no edits_history row.                       *)
SetupRooms(u, room, br, init_date) ==
  LET room_id == new_rowid(rooms)
      session_id == new_rowid(sessions)
      integrity_error == \/ \E r \in rooms : r.name = room
                         \/ conflicting(sessions, None, room_id, init_date) # {}
  IN  /\ room \in RoomNames
      /\ IF database_locked(conns, u)
         THEN /\ call' = Call("setup_rooms", "exception", 0, init_date)
              /\ UNCHANGED <<rooms, sessions, given>>
         ELSE IF integrity_error
         THEN /\ call' = Call("setup_rooms", "warning", 0, init_date)
              /\ UNCHANGED <<rooms, sessions, given>>
         ELSE /\ rooms' = rooms \cup {[id |-> room_id, name |-> room,
                                       initial_bankroll |-> br, init_date |-> init_date]}
              /\ sessions' = sessions \cup
                   {[id |-> session_id, room_id |-> room_id, date |-> init_date,
                     tournaments |-> 0, cashflow |-> 0, bankroll |-> br]}
              /\ given' = (session_id :> Given(0, 0, br, 0)) @@ given
              /\ call' = Call("setup_rooms", "success", room_id, init_date)
      /\ conns' = Ended(conns, u, "closed")
      /\ UNCHANGED <<edits_history, session_to_edit, recon>>

(* ----------------------------- session_history ------------------------- *)

(* the ids a user types into the number inputs: those of the rows and one   *)
(* that no row has                                                          *)
SessionIds == {s.id : s \in sessions} \cup {new_rowid(sessions)}

(* SELECT .. FROM sessions s JOIN rooms r ON s.room_id = r.id WHERE s.id = ? *)
session_join_room(ss, rs, session_id) ==
  {j \in [s : ss, r : rs] : j.s.id = session_id /\ j.s.room_id = j.r.id}

(* "Charger la session": st.session_state.session_to_edit of the browser    *)
(* session u                                                                *)
LoadSession(u, session_id) ==
  /\ session_id \in SessionIds
  /\ LET found == session_join_room(sessions, rooms, session_id)
     IN  IF found # {}
         THEN LET j == CHOOSE j \in found : TRUE
              IN  /\ session_to_edit' = [session_to_edit EXCEPT ![u] =
                       [kind |-> "tuple", id |-> j.s.id, date |-> j.s.date,
                        name |-> j.r.name, tournaments |-> j.s.tournaments,
                        cashflow |-> j.s.cashflow, bankroll |-> j.s.bankroll]]
                  /\ call' = Call("load_session", "success", session_id, 0)
         ELSE /\ session_to_edit' = [session_to_edit EXCEPT ![u] = Text("None")]
              /\ call' = Call("load_session", "warning", session_id, 0)
  /\ conns' = Ended(conns, u, "closed")
  /\ UNCHANGED <<rooms, sessions, edits_history, given, recon>>

(* UNIQUE(room_id, date) on UPDATE sessions SET date = .. WHERE id = ..     *)
update_violates_unique_mutant(ss, session_id, new_date) == FALSE
update_violates_unique(ss, session_id, new_date) ==
  \E s \in ss : s.id = session_id /\ conflicting(ss, session_id, s.room_id, new_date) # {}

(* "Enregistrer les modifications": the edits_history row is written from   *)
(* the loaded session_to_edit, the UPDATE goes to the id in the number      *)
(* input.  An exception ("database is locked" at the INSERT, the UNIQUE     *)
(* violation at the UPDATE) rolls both back.                                *)
SaveEdits(u, session_id, new_date, new_tournaments, new_cashflow, new_bankroll) ==
  /\ session_to_edit[u].kind = "tuple"
  /\ session_id \in SessionIds
  /\ LET session_data == session_to_edit[u]
         old_values_str == [kind |-> "loaded", date |-> session_data.date,
                            name |-> session_data.name,
                            tournaments |-> session_data.tournaments,
                            cashflow |-> session_data.cashflow,
                            bankroll |-> session_data.bankroll]
         new_values_str == [kind |-> "edited", date |-> new_date,
                            tournaments |-> new_tournaments,
                            cashflow |-> new_cashflow, bankroll |-> new_bankroll]
         logged == insert_edit(edits_history,
                     edit("sessions", session_id, old_values_str, new_values_str, "UPDATE"))
         updated == {IF s.id = session_id
                     THEN [s EXCEPT !.date = new_date, !.tournaments = new_tournaments,
                                    !.cashflow = new_cashflow, !.bankroll = new_bankroll]
                     ELSE s : s \in sessions}
         staged == [sessions |-> updated, edits_history |-> logged]
         db == [sessions |-> sessions, edits_history |-> edits_history]
         locked == database_locked(conns, u)
         failed == locked \/ update_violates_unique(sessions, session_id, new_date)
         out == IF locked THEN db
                ELSE IF failed THEN rollback(db, [db EXCEPT !.edits_history = logged])
                ELSE staged
     IN  /\ sessions' = out.sessions
         /\ edits_history' = out.edits_history
         /\ session_to_edit' = IF failed THEN session_to_edit
                               ELSE [session_to_edit EXCEPT ![u] = Text("None")]
         /\ call' = Call("save_edits", IF failed THEN "error" ELSE "success",
                         session_id, new_date)
         /\ given' = IF failed \/ session_id \notin DOMAIN given THEN given
                     ELSE [given EXCEPT ![session_id] =
                             Given(new_tournaments, new_cashflow, new_bankroll, 0)]
  /\ conns' = Ended(conns, u, "closed")
  /\ UNCHANGED <<rooms, recon>>

(* "Supprimer la session".  old_session is what the SELECT of the handler   *)
(* returned, a row of the join or nothing: it is read before the            *)
(* transaction begins, which opens with the INSERT; the INSERT logs         *)
(* old_session, the DELETE goes by the id.  "database is locked" leaves the *)
(* handler as an exception.                                                 *)
DeleteSession(u, session_id_to_delete, old_session) ==
  /\ IF old_session = {}
     THEN /\ call' = Call("delete_session", "warning", session_id_to_delete, 0)
          /\ UNCHANGED <<sessions, edits_history, given>>
     ELSE IF database_locked(conns, u)
     THEN /\ call' = Call("delete_session", "exception", session_id_to_delete, 0)
          /\ UNCHANGED <<sessions, edits_history, given>>
     ELSE LET j == CHOOSE j \in old_session : TRUE
              logged == [kind |-> "loaded", date |-> j.s.date, name |-> j.r.name,
                         tournaments |-> j.s.tournaments,
                         cashflow |-> j.s.cashflow, bankroll |-> j.s.bankroll]
          IN  /\ edits_history' = insert_edit(edits_history,
                   edit("sessions", session_id_to_delete, logged,
                        Text("DELETED"), "DELETE"))
              /\ sessions' = {s \in sessions : s.id # session_id_to_delete}
              /\ given' = [id \in DOMAIN given \ {session_id_to_delete} |-> given[id]]
              /\ call' = Call("delete_session", "success", session_id_to_delete, 0)
  /\ conns' = Ended(conns, u, "closed")
  /\ UNCHANGED <<rooms, session_to_edit, recon>>

(* ------------------------------- delete_room --------------------------- *)

(* SELECT * FROM sessions WHERE room_id = ?: SQLite answers it from the     *)
(* index of UNIQUE(room_id, date), that is in date order.                   *)
sessions_of_room(ss, room_id) == order_by_date({s \in ss : s.room_id = room_id})

(* The edits_history rows of delete_room: the room's, then one per session. *)
(* rs: the rooms as SELECT * FROM rooms WHERE id = ? saw them; without a    *)
(* row of that id fetchone() is None and str(None) is logged.               *)
delete_room_edits_mutant(rs, ss, room_id) ==
  LET old_room_data == {r \in rs : r.id = room_id}
  IN  <<edit("rooms", room_id,
             IF old_room_data = {} THEN Text("None")
             ELSE str_room(CHOOSE r \in old_room_data : TRUE),
             Text("DELETED"), "DELETE")>>
delete_room_edits(rs, ss, room_id) ==
  LET old_room_data == {r \in rs : r.id = room_id}
      session_data == sessions_of_room(ss, room_id)
  IN  <<edit("rooms", room_id,
             IF old_room_data = {} THEN Text("None")
             ELSE str_room(CHOOSE r \in old_room_data : TRUE),
             Text("DELETED"), "DELETE")>>
      \o [k \in 1..Len(session_data) |->
            edit("sessions", session_data[k].id, str_session(session_data[k]),
                 Text("DELETED"), "DELETE_CASCADE")]

(* "Supprimer la Room et ses sessions".  room is the choice from the list   *)
(* the page read on its first connection; old_room_data is what the SELECT  *)
(* of the handler returned, before the INSERT that opens the transaction.   *)
(* The sessions are read inside the transaction.  delete_room has no        *)
(* try/except: "database is locked" leaves the handler as an exception.     *)
DeleteRoom(u, room, old_room_data) ==
  /\ LET room_id == room.id
         edits == delete_room_edits(old_room_data, sessions, room_id)
         gone == {s \in sessions : s.room_id = room_id}
     IN  /\ IF database_locked(conns, u)
            THEN /\ call' = Call("delete_room", "exception", room_id, 0)
                 /\ UNCHANGED <<rooms, sessions, edits_history, given>>
            ELSE /\ edits_history' = edits_history \o edits
                 /\ sessions' = sessions \ gone
                 /\ rooms' = {r \in rooms : r.id # room_id}
                 /\ given' = [id \in DOMAIN given \ {s.id : s \in gone} |-> given[id]]
                 /\ call' = Call("delete_room", "success", room_id, 0)
  /\ conns' = Ended(conns, u, "closed")
  /\ UNCHANGED <<session_to_edit, recon>>

(* --------------------------- edit_initial_bankroll --------------------- *)

(* "Enregistrer".  room is the choice from the list the page read on its    *)
(* first connection: its initial_bankroll and init_date are logged as the   *)
(* old value, the UPDATE goes by its id.  No try/except.                    *)
EditInitialBankroll(u, room, new_br, new_date) ==
  /\ IF database_locked(conns, u)
     THEN /\ call' = Call("edit_initial_bankroll", "exception", room.id, new_date)
          /\ UNCHANGED <<rooms, edits_history>>
     ELSE /\ edits_history' = insert_edit(edits_history,
               edit("rooms", room.id,
                    [kind |-> "initial", initial_bankroll |-> room.initial_bankroll,
                     init_date |-> room.init_date],
                    [kind |-> "initial", initial_bankroll |-> new_br, init_date |-> new_date],
                    "UPDATE_INITIAL_BR_DATE"))
          /\ rooms' = {IF r.id = room.id
                       THEN [r EXCEPT !.initial_bankroll = new_br, !.init_date = new_date]
                       ELSE r : r \in rooms}
          /\ call' = Call("edit_initial_bankroll", "success", room.id, new_date)
  /\ conns' = Ended(conns, u, "closed")
  /\ UNCHANGED <<sessions, session_to_edit, given, recon>>

(* ------------------------------ the program ---------------------------- *)

NoRecon == [today |-> 0, copy_on_write |-> FALSE,
            result |-> [status |-> "none", data |-> <<>>], weekly |-> <<>>,
            page |-> [status |-> "none"]]

(* init_db: three empty tables *)
Init ==
  /\ rooms = {}
  /\ sessions = {}
  /\ edits_history = <<>>
  /\ session_to_edit = NoEdit
  /\ call = Call("init_db", "success", 0, 0)
  /\ given = [id \in {} |-> Given(0, 0, 0, 0)]
  /\ recon = NoRecon
  /\ conns = NoConns

(* a handler runs while the audit log is short of its bound *)
HistoryFits == Len(edits_history) < MaxHistory

(* One browser session, each script run from its reads to its commit with   *)
(* no write of another in between: what a handler read is what the store    *)
(* holds when it writes.                                                    *)
Next ==
  \/ \E room \in RoomNames, br \in Bankrolls, init_date \in Days :
       HistoryFits /\ SetupRooms(OneUser, room, br, init_date)
  \/ \E room \in rooms, date \in Days, form \in Forms, fail \in Failures :
       /\ HistoryFits
       /\ AddSession(room, date, form.tournaments, form.cashflow, form.bankroll, fail)
  \/ \E session_id \in SessionIds :
       HistoryFits /\ LoadSession(OneUser, session_id)
  \/ \E session_id \in SessionIds, new_date \in Days, form \in Forms :
       /\ HistoryFits
       /\ SaveEdits(OneUser, session_id, new_date, form.tournaments, form.cashflow,
                    form.bankroll)
  \/ \E session_id \in SessionIds :
       /\ HistoryFits
       /\ DeleteSession(OneUser, session_id,
                        session_join_room(sessions, rooms, session_id))
  \/ \E room \in rooms :
       HistoryFits /\ DeleteRoom(OneUser, room, rooms)
  \/ \E room \in rooms, new_br \in Bankrolls, new_date \in Days :
       HistoryFits /\ EditInitialBankroll(OneUser, room, new_br, new_date)

Spec == Init /\ [][Next]_vars

(* --------------------- room_stats as a program of its own -------------- *)

(* A store holding one room and any sessions of it (one per date at most,   *)
(* before, on or after init_date), the day room_stats runs and the pandas   *)
(* build it runs on.                                                        *)
InitRecon ==
  \E initial_bankroll \in InitialBankrolls, init_date \in GridDays, today \in GridDays,
     copy_on_write \in BOOLEAN, dates \in SUBSET GridDays, form \in [GridDays -> Forms] :
    /\ rooms = {[id |-> 1, name |-> "Winamax", initial_bankroll |-> initial_bankroll,
                 init_date |-> init_date]}
    /\ sessions = {[id |-> d + 1, room_id |-> 1, date |-> d,
                    tournaments |-> form[d].tournaments, cashflow |-> form[d].cashflow,
                    bankroll |-> form[d].bankroll] : d \in dates}
    /\ edits_history = <<>>
    /\ session_to_edit = NoEdit
    /\ call = Call("init_db", "success", 0, 0)
    /\ given = [id \in {} |-> Given(0, 0, 0, 0)]
    /\ recon = [NoRecon EXCEPT !.today = today, !.copy_on_write = copy_on_write]
    /\ conns = NoConns

(* room_stats: the query, then process_room_data up to today, then the     *)
(* profit per week ("Hebdomadaire") of the series                           *)
RoomStats(room) ==
  /\ room \in rooms
  /\ recon.result.status = "none"
  /\ LET data == room_stats_data(sessions, room, recon.today, recon.copy_on_write)
     IN  recon' = [recon EXCEPT !.result = data, !.weekly = resample_W_MON(data.data)]
  /\ call' = Call("room_stats", IF recon'.result.status = "ok" THEN "success" ELSE "error",
                  room.id, recon.today)
  /\ UNCHANGED <<rooms, sessions, edits_history, session_to_edit, given, conns>>

NextRecon == \E room \in rooms : RoomStats(room)

SpecRecon == InitRecon /\ [][NextRecon]_vars

(* ----------- room creation, corrections of the initial values ---------- *)

(* An empty store, the day room_stats will run and the pandas build. *)
InitCorrection ==
  \E today \in GridDays, copy_on_write \in BOOLEAN :
    /\ rooms = {}
    /\ sessions = {}
    /\ edits_history = <<>>
    /\ session_to_edit = NoEdit
    /\ call = Call("init_db", "success", 0, 0)
    /\ given = [id \in {} |-> Given(0, 0, 0, 0)]
    /\ recon = [NoRecon EXCEPT !.today = today, !.copy_on_write = copy_on_write]
    /\ conns = NoConns

(* Rooms are created and their initial bankroll and init_date corrected;    *)
(* no session is recorded, edited or deleted; room_stats shows a room.      *)
NextCorrection ==
  \/ \E room \in RoomNames, br \in InitialBankrolls, init_date \in GridDays :
       HistoryFits /\ SetupRooms(OneUser, room, br, init_date)
  \/ \E room \in rooms, new_br \in InitialBankrolls, new_date \in GridDays :
       HistoryFits /\ EditInitialBankroll(OneUser, room, new_br, new_date)
  \/ \E room \in rooms : RoomStats(room)

SpecCorrection == InitCorrection /\ [][NextCorrection]_vars

(* ------------- the read-only pages over a store of several rooms ------- *)

(* A store of one or two rooms, each with any sessions (one per date at     *)
(* most, before, on or after its init_date, up to today or later), the day  *)
(* the pages are opened and the pandas build.  Every such store is one the  *)
(* handlers produce: setup_rooms, add_session on any date, session delete   *)
(* and edit_initial_bankroll.                                               *)
InitGlobal ==
  \E initial_bankroll \in InitialBankrolls, init_date \in GridDays, dates \in SUBSET GridDays,
     second \in BOOLEAN, init_date2 \in GridDays, dates2 \in SUBSET GridDays,
     form \in Forms, form2 \in Forms, today \in GridDays, copy_on_write \in BOOLEAN :
    /\ ~second => init_date2 = 0 /\ dates2 = {} /\ form2 = form
    /\ rooms = {[id |-> 1, name |-> "Winamax", initial_bankroll |-> initial_bankroll,
                 init_date |-> init_date]}
               \cup (IF second
                     THEN {[id |-> 2, name |-> "PokerStars",
                            initial_bankroll |-> CHOOSE b \in Bankrolls : TRUE,
                            init_date |-> init_date2]}
                     ELSE {})
    /\ sessions = {[id |-> d + 1, room_id |-> 1, date |-> d,
                    tournaments |-> form.tournaments, cashflow |-> form.cashflow,
                    bankroll |-> form.bankroll] : d \in dates}
                  \cup {[id |-> MaxGridDay + d + 2, room_id |-> 2, date |-> d,
                         tournaments |-> form2.tournaments, cashflow |-> form2.cashflow,
                         bankroll |-> form2.bankroll] : d \in dates2}
    /\ edits_history = <<>>
    /\ session_to_edit = NoEdit
    /\ call = Call("init_db", "success", 0, 0)
    /\ given = [id \in {} |-> Given(0, 0, 0, 0)]
    /\ recon = [NoRecon EXCEPT !.today = today, !.copy_on_write = copy_on_write]
    /\ conns = NoConns

(* "Profit Global" *)
GlobalStats ==
  /\ recon.page.status = "none"
  /\ LET out == global_stats(order_by_id(rooms), sessions, recon.today, recon.copy_on_write)
     IN  /\ recon' = [recon EXCEPT !.page = [status |-> "global_stats", global |-> out]]
         /\ call' = Call("global_stats", IF out.status = "ok" THEN "success" ELSE "warning",
                         0, recon.today)
  /\ UNCHANGED <<rooms, sessions, edits_history, session_to_edit, given, conns>>

(* "Tableau de Bord" *)
Dashboard ==
  /\ recon.page.status = "none"
  /\ LET out == dashboard(sessions, rooms)
     IN  /\ recon' = [recon EXCEPT !.page = [status |-> "dashboard", dashboard |-> out]]
         /\ call' = Call("dashboard", IF out.status = "ok" THEN "success" ELSE "warning",
                         0, recon.today)
  /\ UNCHANGED <<rooms, sessions, edits_history, session_to_edit, given, conns>>

(* "Historique des Sessions": the table at the top of the page *)
SessionHistory(room_filter) ==
  /\ recon.page.status = "none"
  /\ room_filter \in {"Toutes"} \cup {r.name : r \in rooms}
  /\ recon' = [recon EXCEPT !.page =
                 [status |-> "session_history", room_filter |-> room_filter,
                  rows |-> session_history_query(sessions, rooms, room_filter)]]
  /\ call' = Call("session_history", "success", 0, recon.today)
  /\ UNCHANGED <<rooms, sessions, edits_history, session_to_edit, given, conns>>

NextGlobal ==
  \/ GlobalStats
  \/ Dashboard
  \/ \E room_filter \in {"Toutes"} \cup RoomNames : SessionHistory(room_filter)

SpecGlobal == InitGlobal /\ [][NextGlobal]_vars

(* ---------------- add_session of two users at the same time ------------ *)

(* A store as setup_rooms leaves it: a room and its initial session. *)
InitConc ==
  \E br \in Bankrolls, init_date \in Days :
    /\ rooms = {[id |-> 1, name |-> "Winamax", initial_bankroll |-> br,
                 init_date |-> init_date]}
    /\ sessions = {[id |-> 1, room_id |-> 1, date |-> init_date, tournaments |-> 0,
                    cashflow |-> 0, bankroll |-> br]}
    /\ edits_history = <<>>
    /\ session_to_edit = NoEdit
    /\ call = Call("setup_rooms", "success", 1, init_date)
    /\ given = (1 :> Given(0, 0, br, 0))
    /\ recon = NoRecon
    /\ conns = NoConns

(* The script run starts: SELECT .. FROM rooms on a connection that is      *)
(* closed at once; with no room the run ends on a warning.                  *)
ReadRooms(u) ==
  /\ conns[u].pc = "closed"
  /\ MayBegin(conns)
  /\ IF rooms = {}
     THEN /\ conns' = Ended(conns, u, "failed")
          /\ call' = Call("add_session", "warning", 0, 0)
     ELSE /\ conns' = Begun(conns, u, "form", rooms)
          /\ call' = call
  /\ UNCHANGED <<rooms, sessions, edits_history, session_to_edit, given, recon>>

(* c_write.execute(upsert), for a room of the list read at the start of the *)
(* run.  While another connection holds the lock the statement waits; when  *)
(* the timeout of sqlite3.connect passes first it raises "database is       *)
(* locked" and the handler rolls back.                                      *)
Upsert(u, room, date, tournaments, cashflow, bankroll) ==
  /\ conns[u].pc = "form"
  /\ room \in conns[u].rooms
  /\ IF database_locked(conns, u)
     THEN /\ conns' = Ended(conns, u, "failed")
          /\ call' = Call("add_session", "error", room.id, date)
     ELSE /\ conns' = [conns EXCEPT ![u] =
                         [pc |-> "upserted", tx |-> TRUE, runs |-> conns[u].runs,
                          rooms |-> conns[u].rooms, read |-> {}, id |-> 0,
                          room_id |-> room.id, date |-> date,
                          tournaments |-> tournaments, cashflow |-> cashflow,
                          bankroll |-> bankroll,
                          staged |-> [sessions |-> upsert(sessions, room.id, date, tournaments,
                                                          cashflow, bankroll),
                                      edits_history |-> edits_history],
                          order |-> 0]]
          /\ call' = call
  /\ UNCHANGED <<rooms, sessions, edits_history, session_to_edit, given, recon>>

(* c_write.execute(INSERT INTO edits_history ..) *)
History(u) ==
  LET c == conns[u]
  IN  /\ c.pc = "upserted"
      /\ conns' = [conns EXCEPT ![u].pc = "logged",
                                ![u].staged.edits_history =
                                  insert_edit(@, add_session_edit(sessions, c.staged.sessions,
                                                  c.room_id, c.date, c.tournaments,
                                                  c.cashflow, c.bankroll))]
      /\ UNCHANGED <<rooms, sessions, edits_history, session_to_edit, call, given, recon>>

(* conn_write.commit(): what the transaction staged becomes the store *)
Commit(u) ==
  LET c == conns[u]
      hit == conflicting(sessions, None, c.room_id, c.date)
  IN  /\ c.pc = "logged"
      /\ sessions' = c.staged.sessions
      /\ edits_history' = c.staged.edits_history
      /\ conns' = [conns EXCEPT ![u].pc = "committed", ![u].tx = FALSE,
                                ![u].order = 1 + Cardinality({v \in Users :
                                                               conns[v].pc = "committed"})]
      /\ call' = Call("add_session", "success", c.room_id, c.date)
      /\ given' =
           IF hit = {}
           THEN (new_rowid(sessions) :> Given(c.tournaments, c.cashflow, c.bankroll, 1))
                  @@ given
           ELSE LET id == (CHOOSE s \in hit : TRUE).id
                IN  [given EXCEPT ![id] =
                       Given(@.tournaments + c.tournaments, @.cashflow + c.cashflow,
                             c.bankroll, @.calls + 1)]
      /\ UNCHANGED <<rooms, session_to_edit, recon>>

(* a statement after the upsert, or the commit, raises: conn_write.rollback() *)
Abort(u) ==
  LET c == conns[u]
      out == rollback([sessions |-> sessions, edits_history |-> edits_history], c.staged)
  IN  /\ c.pc \in {"upserted", "logged"}
      /\ sessions' = out.sessions
      /\ edits_history' = out.edits_history
      /\ conns' = Ended(conns, u, "failed")
      /\ call' = Call("add_session", "error", c.room_id, c.date)
      /\ UNCHANGED <<rooms, session_to_edit, given, recon>>

NextConc ==
  \/ \E u \in Users : ReadRooms(u)
  \/ \E u \in Users : \E room \in conns[u].rooms, date \in Days, form \in Forms :
       Upsert(u, room, date, form.tournaments, form.cashflow, form.bankroll)
  \/ \E u \in Users : History(u)
  \/ \E u \in Users : Commit(u)
  \/ \E u \in Users : Abort(u)

SpecConc == InitConc /\ [][NextConc]_vars

(* ------------- the handlers of two users, interleaved ------------------ *)

(* finally: conn_write.close(); the run of add_session is over *)
Close(u) ==
  /\ conns[u].pc \in {"committed", "failed"}
  /\ conns' = Ended(conns, u, "closed")
  /\ UNCHANGED <<rooms, sessions, edits_history, session_to_edit, call, given, recon>>

(* The page of delete_room: SELECT id, name FROM rooms on a connection that *)
(* is closed at once; with no room the run ends on a warning.               *)
DeleteRoomPage(u) ==
  /\ conns[u].pc = "closed"
  /\ MayBegin(conns)
  /\ IF rooms = {}
     THEN /\ call' = Call("delete_room", "warning", 0, 0)
          /\ conns' = conns
     ELSE /\ conns' = Begun(conns, u, "delete_room", rooms)
          /\ call' = call
  /\ UNCHANGED <<rooms, sessions, edits_history, session_to_edit, given, recon>>

(* The button of delete_room, for a room of the list: a new connection and  *)
(* SELECT * FROM rooms WHERE id = ?, outside any transaction.               *)
SelectRoom(u, room) ==
  /\ conns[u].pc = "delete_room"
  /\ room \in conns[u].rooms
  /\ conns' = [conns EXCEPT ![u].pc = "room_selected", ![u].rooms = {room},
                            ![u].id = room.id,
                            ![u].read = {r \in rooms : r.id = room.id}]
  /\ UNCHANGED <<rooms, sessions, edits_history, session_to_edit, call, given, recon>>

(* The page of edit_initial_bankroll: SELECT id, name, initial_bankroll,    *)
(* init_date FROM rooms on a connection that is closed at once.             *)
EditInitialBankrollPage(u) ==
  /\ conns[u].pc = "closed"
  /\ MayBegin(conns)
  /\ IF rooms = {}
     THEN /\ call' = Call("edit_initial_bankroll", "warning", 0, 0)
          /\ conns' = conns
     ELSE /\ conns' = Begun(conns, u, "edit_initial", rooms)
          /\ call' = call
  /\ UNCHANGED <<rooms, sessions, edits_history, session_to_edit, given, recon>>

(* The page of setup_rooms: the checkboxes and inputs, nothing is read *)
SetupRoomsPage(u) ==
  /\ conns[u].pc = "closed"
  /\ MayBegin(conns)
  /\ conns' = Begun(conns, u, "setup_rooms", {})
  /\ UNCHANGED <<rooms, sessions, edits_history, session_to_edit, call, given, recon>>

(* The page of session_history: SELECT id, name FROM rooms for the filter   *)
(* and the query of the table, on the connection the buttons will use.      *)
SessionHistoryPage(u) ==
  /\ conns[u].pc = "closed"
  /\ MayBegin(conns)
  /\ conns' = Begun(conns, u, "session_history", rooms)
  /\ UNCHANGED <<rooms, sessions, edits_history, session_to_edit, call, given, recon>>

(* "Supprimer la session": the SELECT of the join for the id, outside any   *)
(* transaction.                                                             *)
SelectSession(u, session_id_to_delete) ==
  /\ conns[u].pc = "session_history"
  /\ ~conns[u].tx
  /\ session_id_to_delete \in SessionIds
  /\ conns' = [conns EXCEPT ![u].pc = "session_selected",
                            ![u].id = session_id_to_delete,
                            ![u].read = session_join_room(sessions, rooms,
                                                          session_id_to_delete)]
  /\ UNCHANGED <<rooms, sessions, edits_history, session_to_edit, call, given, recon>>

(* The first INSERT of a handler's transaction, when no other connection    *)
(* holds the write lock: the connection of u takes it.  What the            *)
(* transaction does from there to its commit no other connection sees, and  *)
(* no other connection can write meanwhile: the handler's step is its       *)
(* commit.                                                                  *)
BeginTransaction(u, pc) ==
  /\ conns[u].pc = pc
  /\ ~conns[u].tx
  /\ ~database_locked(conns, u)
  /\ conns' = [conns EXCEPT ![u].tx = TRUE]
  /\ UNCHANGED <<rooms, sessions, edits_history, session_to_edit, call, given, recon>>

(* c.execute(INSERT INTO rooms ..) of setup_rooms *)
SetupRoomsInsert(u) == BeginTransaction(u, "setup_rooms")

(* conn.execute(INSERT INTO edits_history ..) of "Enregistrer les           *)
(* modifications", shown when a session is loaded                           *)
SaveEditsInsert(u) ==
  session_to_edit[u].kind = "tuple" /\ BeginTransaction(u, "session_history")

(* conn.execute(INSERT INTO edits_history ..) of "Supprimer la session",    *)
(* when the SELECT found the session                                        *)
DeleteSessionInsert(u) == conns[u].read # {} /\ BeginTransaction(u, "session_selected")

(* conn.execute(INSERT INTO edits_history ..) of delete_room *)
DeleteRoomInsert(u) == BeginTransaction(u, "room_selected")

(* conn.execute(INSERT INTO edits_history ..) of edit_initial_bankroll *)
EditInitialBankrollInsert(u) == BeginTransaction(u, "edit_initial")

(* the handler of u commits the transaction it has begun, or its first      *)
(* INSERT finds the database locked                                         *)
Writes(u) == conns[u].tx \/ database_locked(conns, u)

(* The script runs of the users, statement by statement where another       *)
(* user's commit can fall between a read of a run and its write: between    *)
(* the room list of a page and the handler of its button, between the       *)
(* SELECT of a handler and the INSERT that opens its transaction, between   *)
(* that INSERT and the commit (where the other user's write finds the       *)
(* database locked).  There is no PRAGMA foreign_keys: the FOREIGN KEY of   *)
(* sessions is not enforced.                                                *)
NextRace ==
  \/ \E u \in Users : ReadRooms(u)
  \/ \E u \in Users : \E room \in conns[u].rooms, date \in Days, form \in Forms :
       Upsert(u, room, date, form.tournaments, form.cashflow, form.bankroll)
  \/ \E u \in Users : History(u)
  \/ \E u \in Users : Commit(u)
  \/ \E u \in Users : Abort(u)
  \/ \E u \in Users : Close(u)
  \/ \E u \in Users : SetupRoomsPage(u)
  \/ \E u \in Users, room \in RoomNames, br \in Bankrolls, init_date \in Days :
       conns[u].pc = "setup_rooms" /\ Writes(u) /\ SetupRooms(u, room, br, init_date)
  \/ \E u \in Users : SetupRoomsInsert(u)
  \/ \E u \in Users : SessionHistoryPage(u)
  \/ \E u \in Users, session_id \in SessionIds :
       conns[u].pc = "session_history" /\ ~conns[u].tx /\ LoadSession(u, session_id)
  \/ \E u \in Users : SaveEditsInsert(u)
  \/ \E u \in Users, session_id \in SessionIds, new_date \in Days, form \in Forms :
       /\ conns[u].pc = "session_history"
       /\ Writes(u)
       /\ SaveEdits(u, session_id, new_date, form.tournaments, form.cashflow, form.bankroll)
  \/ \E u \in Users, session_id \in SessionIds : SelectSession(u, session_id)
  \/ \E u \in Users : DeleteSessionInsert(u)
  \/ \E u \in Users :
       /\ conns[u].pc = "session_selected"
       /\ conns[u].read = {} \/ Writes(u)
       /\ DeleteSession(u, conns[u].id, conns[u].read)
  \/ \E u \in Users : DeleteRoomPage(u)
  \/ \E u \in Users : \E room \in conns[u].rooms : SelectRoom(u, room)
  \/ \E u \in Users : \E room \in conns[u].rooms :
       conns[u].pc = "room_selected" /\ Writes(u) /\ DeleteRoom(u, room, conns[u].read)
  \/ \E u \in Users : DeleteRoomInsert(u)
  \/ \E u \in Users : EditInitialBankrollPage(u)
  \/ \E u \in Users : EditInitialBankrollInsert(u)
  \/ \E u \in Users : \E room \in conns[u].rooms, new_br \in Bankrolls, new_date \in Days :
       /\ conns[u].pc = "edit_initial"
       /\ Writes(u)
       /\ EditInitialBankroll(u, room, new_br, new_date)

SpecRace == InitConc /\ [][NextRace]_vars

(* ===================== properties of the reconciliation ================= *)

(* the room room_stats ran for, its series, and the sessions on its grid *)
ReconDone == recon.result.status # "none"
ReconRoom == CHOOSE r \in rooms : TRUE
ReconData == recon.result.data
GridSessions(d) ==
  {s \in sessions : s.room_id = ReconRoom.id /\ s.date >= ReconRoom.init_date /\ s.date <= d}
LatestOf(S) == CHOOSE s \in S : \A q \in S : q.date <= s.date

(* the bankroll a day is to carry: its session's, else that of the nearest  *)
(* earlier grid day with a session, else the initial bankroll               *)
CarriedBankroll(d) ==
  IF GridSessions(d) = {} THEN ReconRoom.initial_bankroll
  ELSE LatestOf(GridSessions(d)).bankroll

(* the balance a day is compared with: the day before's, or the initial one *)
PreviousBalance(i) ==
  IF i = 1 THEN Num(ReconRoom.initial_bankroll) ELSE ReconData[i - 1].bankroll

(* C1: on every day of the series pure_profit = (bankroll - cashflow) -     *)
(* previous_balance, the previous balance being the filled bankroll of the  *)
(* day before and the initial bankroll on the first day, so that            *)
(* previous_balance + pure_profit + cashflow = bankroll.                    *)
C1_ProfitReconstructsBalance ==
  ReconDone /\ recon.result.status = "ok" =>
    \A i \in 1..Len(ReconData) :
      LET day == ReconData[i]
          prev == PreviousBalance(i)
      IN  /\ ~day.pure_profit.na /\ ~day.bankroll.na /\ ~prev.na
          /\ prev.v + day.pure_profit.v + day.cashflow.v = day.bankroll.v

(* Where the bankroll column has no unresolved day the equation holds       *)
(* of the values the code computes, the first day's previous balance being  *)
(* the initial bankroll also when that day has a session.                   *)
ProfitOfResolvedDays ==
  ReconDone /\ recon.result.status = "ok" =>
    \A i \in 1..Len(ReconData) :
      LET day == ReconData[i]
          prev == PreviousBalance(i)
      IN  ~day.bankroll.na /\ ~prev.na =>
            /\ ~day.pure_profit.na
            /\ prev.v + day.pure_profit.v + day.cashflow.v = day.bankroll.v

(* C2: when today is not before init_date the series has one entry per      *)
(* calendar day from init_date to today, (today - init_date) + 1 of them,   *)
(* in increasing order with no gap, whatever days have sessions.            *)
C2_OneEntryPerDay ==
  ReconDone /\ recon.today >= ReconRoom.init_date =>
    /\ recon.result.status = "ok"
    /\ Len(ReconData) = (recon.today - ReconRoom.init_date) + 1
    /\ \A i \in 1..Len(ReconData) : ReconData[i].date = ReconRoom.init_date + (i - 1)

(* a grid of three days of which one at least has no session, and sessions  *)
(* off the grid                                                             *)
C2_Witness ==
  /\ ReconDone
  /\ recon.today = ReconRoom.init_date + 1
  /\ Len(ReconData) = 2
  /\ \E d \in ReconRoom.init_date..recon.today : \A s \in sessions : s.date # d
  /\ \E s \in sessions : s.date > recon.today

(* C3: a day with a session carries its bankroll, a day without one the     *)
(* bankroll of the nearest earlier grid day with a session, or the initial  *)
(* bankroll when there is none; no bankroll is left NaN.                    *)
C3_ForwardFill ==
  ReconDone /\ recon.result.status = "ok" =>
    \A i \in 1..Len(ReconData) :
      /\ ~ReconData[i].bankroll.na
      /\ ReconData[i].bankroll.v = CarriedBankroll(ReconData[i].date)

(* On a build where the assignment to the first row reaches df the column   *)
(* is filled as described.                                                  *)
ForwardFillWriteThrough ==
  ReconDone /\ recon.result.status = "ok" /\ ~recon.copy_on_write =>
    \A i \in 1..Len(ReconData) :
      /\ ~ReconData[i].bankroll.na
      /\ ReconData[i].bankroll.v = CarriedBankroll(ReconData[i].date)

(* C4: when today is before init_date the series is empty and room_stats    *)
(* does not end in an error.                                                *)
C4_EmptyBeforeStart ==
  ReconDone /\ recon.today < ReconRoom.init_date =>
    recon.result.status = "ok" /\ ReconData = <<>>

(* ======================= properties of the handlers ===================== *)

Last(seq) == seq[Len(seq)]
SessionAt(ss, room_id, date) == {s \in ss : s.room_id = room_id /\ s.date = date}

(* a step of add_session, and one that committed *)
AddSessionRan == call'.op = "add_session" /\ vars' # vars
AddSessionCommitted == AddSessionRan /\ call'.outcome = "success"

(* C5: a session row holds the sum of the tournaments and of the cashflow   *)
(* given for its (room, date) and the bankroll given last; two identical    *)
(* add_session calls double tournaments and cashflow.                       *)
C5_AdditiveMerge ==
  \A s \in sessions :
    /\ s.id \in DOMAIN given
    /\ s.tournaments = given[s.id].tournaments
    /\ s.cashflow = given[s.id].cashflow
    /\ s.bankroll = given[s.id].bankroll

(* a row made by one add_session call and merged into by a second, equal one *)
C5_Witness ==
  \E s \in sessions :
    /\ s.id \in DOMAIN given
    /\ given[s.id].calls = 2
    /\ \E form \in Forms : /\ s.tournaments = 2 * form.tournaments
                           /\ s.cashflow = 2 * form.cashflow
                           /\ s.bankroll = form.bankroll
    /\ Len(edits_history) = 2

(* C6: the action add_session records is CREATE exactly when its (room,     *)
(* date) had no session before the call and UPDATE exactly when it had one, *)
(* and the record id it records is the id of the row created or merged into.*)
C6_RecordedAction ==
  [][AddSessionCommitted =>
       LET existed == SessionAt(sessions, call'.id, call'.date) # {}
           row == CHOOSE s \in SessionAt(sessions', call'.id, call'.date) : TRUE
           entry == Last(edits_history')
       IN  /\ entry.user_action = (IF existed THEN "UPDATE" ELSE "CREATE")
           /\ entry.record_id = row.id]_vars

(* C7: a successful add_session appends one edits_history entry whose       *)
(* new_value is the state of the session row after the call (merged         *)
(* tournaments and cashflow, new bankroll) and whose old_value on CREATE is *)
(* the empty sentinel.                                                      *)
C7_SnapshotOfNewState ==
  [][AddSessionCommitted =>
       LET existed == SessionAt(sessions, call'.id, call'.date) # {}
           row == CHOOSE s \in SessionAt(sessions', call'.id, call'.date) : TRUE
           entry == Last(edits_history')
       IN  /\ Len(edits_history') = Len(edits_history) + 1
           /\ entry.new_value = [kind |-> "dict", date |-> row.date,
                                 tournaments |-> row.tournaments,
                                 cashflow |-> row.cashflow, bankroll |-> row.bankroll]
           /\ ~existed => entry.old_value = Text("INITIAL_INSERT")]_vars

(* C8: add_session persists the session write and its edits_history entry   *)
(* together or not at all; a failure at any step before the commit leaves   *)
(* sessions and edits_history as they were.                                 *)
C8_Atomic ==
  [][call'.op = "add_session" =>
       /\ (sessions' # sessions) <=> (edits_history' # edits_history)
       /\ call'.outcome = "success" =>
            /\ Len(edits_history') = Len(edits_history) + 1
            /\ SubSeq(edits_history', 1, Len(edits_history)) = edits_history
            /\ sessions' # sessions
       /\ call'.outcome # "success" =>
            sessions' = sessions /\ edits_history' = edits_history]_vars

(* a call that failed after an earlier one had committed *)
C8_Witness ==
  /\ call.op = "add_session"
  /\ call.outcome = "error"
  /\ Len(edits_history) = 1
  /\ Last(edits_history).table_name = "sessions"

(* C9: there is at most one session row per (room_id, date). *)
C9_OneSessionPerRoomDate ==
  \A s \in sessions, t \in sessions :
    s.room_id = t.room_id /\ s.date = t.date => s = t

(* a direct update was refused because its new date is taken by another     *)
(* session of the room, in a store where two rooms have sessions on one date *)
C9_Witness ==
  /\ call.op = "save_edits"
  /\ call.outcome = "error"
  /\ \E s \in sessions, t \in sessions :
       s.id = call.id /\ s.room_id = t.room_id /\ s.date # t.date /\ t.date = call.date
  /\ \E s \in sessions, t \in sessions : s.room_id # t.room_id /\ s.date = t.date

(* C10: delete_room of a room with N sessions appends N+1 entries, the      *)
(* room's DELETE first and then one DELETE_CASCADE per session holding that *)
(* session's row; afterwards the room and its sessions are gone.            *)
C10_CascadeComplete ==
  [][call'.op = "delete_room" =>
       LET room_id == call'.id
           old == {s \in sessions : s.room_id = room_id}
           N == Cardinality(old)
           base == Len(edits_history)
       IN  /\ Len(edits_history') = base + N + 1
           /\ SubSeq(edits_history', 1, base) = edits_history
           /\ edits_history'[base + 1].table_name = "rooms"
           /\ edits_history'[base + 1].record_id = room_id
           /\ edits_history'[base + 1].user_action = "DELETE"
           /\ \A k \in (base + 2)..(base + N + 1) :
                /\ edits_history'[k].table_name = "sessions"
                /\ edits_history'[k].user_action = "DELETE_CASCADE"
                /\ edits_history'[k].new_value = Text("DELETED")
           /\ \A s \in old :
                Cardinality({k \in (base + 2)..(base + N + 1) :
                               /\ edits_history'[k].record_id = s.id
                               /\ edits_history'[k].old_value = str_session(s)}) = 1
           /\ \A s \in sessions' : s.room_id # room_id
           /\ \A r \in rooms' : r.id # room_id
           /\ \A s \in sessions \ old : s \in sessions']_vars

(* a room with two sessions was deleted while another room keeps its own *)
C10_Witness ==
  /\ call.op = "delete_room"
  /\ Len(edits_history) >= 3
  /\ edits_history[Len(edits_history) - 2].user_action = "DELETE"
  /\ edits_history[Len(edits_history) - 1].user_action = "DELETE_CASCADE"
  /\ Last(edits_history).user_action = "DELETE_CASCADE"
  /\ sessions # {}

(* what "Charger la session" shows of a session row: its date, the name of  *)
(* its room, tournaments, cashflow, bankroll                                *)
LoadedValues(s, r) ==
  [kind |-> "loaded", date |-> s.date, name |-> r.name, tournaments |-> s.tournaments,
   cashflow |-> s.cashflow, bankroll |-> s.bankroll]

(* C11: the UPDATE entry of a direct session update has as record_id the id *)
(* of the row the update modifies and as old_value the state that row had   *)
(* in the store just before the update, whatever happened between loading   *)
(* and saving.                                                              *)
C11_UpdateAuditsModifiedRow ==
  [][call'.op = "save_edits" /\ call'.outcome = "success" =>
       LET entry == Last(edits_history')
       IN  /\ Len(edits_history') = Len(edits_history) + 1
           /\ entry.user_action = "UPDATE"
           /\ \E s \in sessions, r \in rooms :
                /\ s.id = entry.record_id
                /\ r.id = s.room_id
                /\ \E t \in sessions' : t.id = s.id /\ t.date = call'.date
                /\ entry.old_value = LoadedValues(s, r)]_vars

(* C12: every step that creates, changes or deletes a room row or a session *)
(* row appends at least one edits_history entry with it.                    *)
C12_EveryMutationAudited ==
  [][rooms' # rooms \/ sessions' # sessions =>
       /\ Len(edits_history') > Len(edits_history)
       /\ SubSeq(edits_history', 1, Len(edits_history)) = edits_history]_vars

(* C13: the audit log is append-only: the edits_history of a state is an    *)
(* unchanged prefix of that of every later state.                           *)
C13_AppendOnly ==
  [][/\ Len(edits_history') >= Len(edits_history)
     /\ SubSeq(edits_history', 1, Len(edits_history)) = edits_history]_vars

(* an entry of add_session followed by the entry of a direct update *)
C13_Witness ==
  /\ Len(edits_history) = 2
  /\ edits_history[1].user_action = "CREATE"
  /\ edits_history[2].user_action = "UPDATE"
  /\ call.op = "save_edits"

(* the Monday that starts the week of a day, and the ISO 8601 week number   *)
(* of a day (the week of its Thursday)                                      *)
WeekStart(d) == d - weekday(d)
IsoWeek(d) == (yday(d) - (weekday(d) + 1) + 10) \div 7
BucketDays(b) == {ReconData[i].date : i \in {j \in 1..Len(ReconData) : W_MON(ReconData[j].date) = b.date}}

(* C16: every bucket of the weekly resampling groups the days of one week   *)
(* that runs from Monday to the following Sunday, and its label is the ISO  *)
(* week number and year of those days.                                      *)
C16_WeeklyBuckets ==
  ReconDone /\ recon.result.status = "ok" =>
    /\ \A k \in 1..Len(recon.weekly) :
         LET b == recon.weekly[k]
         IN  \A d \in BucketDays(b) :
               /\ \A e \in BucketDays(b) : WeekStart(e) = WeekStart(d)
               /\ b.date_label = [week |-> IsoWeek(d), year |-> year(d)]
    /\ \A i \in 1..Len(ReconData), j \in 1..Len(ReconData) :
         WeekStart(ReconData[i].date) = WeekStart(ReconData[j].date)
           => W_MON(ReconData[i].date) = W_MON(ReconData[j].date)

(* What the weekly resampling does: a bucket groups the days from a Tuesday *)
(* to the following Monday, it is labelled with that Monday's %U week       *)
(* number, and the buckets' sums add up to the series' profit.              *)
WeeklyBucketsEndOnMonday ==
  ReconDone /\ recon.result.status = "ok" =>
    /\ \A k \in 1..Len(recon.weekly) :
         LET b == recon.weekly[k]
         IN  /\ weekday(b.date) = 0
             /\ BucketDays(b) # {}
             /\ \A d \in BucketDays(b) : d <= b.date /\ b.date - d <= 6
             /\ b.date_label.week = strftime_U(b.date)
    /\ sum_skipna([k \in 1..Len(recon.weekly) |-> recon.weekly[k].pure_profit])
         = sum_skipna([i \in 1..Len(ReconData) |-> ReconData[i].pure_profit])

(* the users whose add_session for (room_id, date) has committed *)
CommittedFor(room_id, date) ==
  {u \in Users : /\ conns[u].pc = "committed"
                 /\ conns[u].room_id = room_id /\ conns[u].date = date}

(* C14: whatever the interleaving of two add_session calls for one (room,   *)
(* date), once calls have committed there is one session row for it, its    *)
(* tournaments and cashflow hold the contribution of every committed call   *)
(* (on top of the initial session's zeros) and its bankroll is that of the  *)
(* call that committed last.                                                *)
C14_NoLostUpdate ==
  \A room \in rooms, date \in Days :
    LET done == CommittedFor(room.id, date)
        row == SessionAt(sessions, room.id, date)
    IN  done # {} =>
          /\ Cardinality(row) = 1
          /\ \A s \in row :
               /\ s.tournaments = SumOf([u \in Users |-> conns[u].tournaments], done)
               /\ s.cashflow = SumOf([u \in Users |-> conns[u].cashflow], done)
               /\ \E u \in done : /\ \A v \in done : conns[v].order <= conns[u].order
                                  /\ s.bankroll = conns[u].bankroll

(* both users committed a call for the same (room, date), with different    *)
(* values                                                                   *)
C14_Witness ==
  /\ \A u \in Users : conns[u].pc = "committed"
  /\ conns["u1"].room_id = conns["u2"].room_id
  /\ conns["u1"].date = conns["u2"].date
  /\ conns["u1"].bankroll # conns["u2"].bankroll
  /\ Len(edits_history) = 2

(* C15: a session delete or direct update that fails, because no session    *)
(* has the id or because the new date is taken by another session of the    *)
(* room, leaves rooms, sessions and the audit log as they were.             *)
C15_FailedWriteLeavesState ==
  [][/\ call'.op \in {"save_edits", "delete_session"}
     /\ \/ \A s \in sessions : s.id # call'.id
        \/ /\ call'.op = "save_edits"
           /\ update_violates_unique(sessions, call'.id, call'.date)
     => /\ rooms' = rooms
        /\ sessions' = sessions
        /\ edits_history' = edits_history]_vars

(* ================= properties of the read-only pages ==================== *)

GlobalRan == recon.page.status = "global_stats"
ActiveRooms(d) == {r \in rooms : r.init_date <= d /\ d <= recon.today}
ActiveDates == {d \in GridDays : ActiveRooms(d) # {}}

(* the row of date d in a daily series *)
DayOf(series, d) == series[CHOOSE i \in 1..Len(series) : series[i].date = d]

(* the totals of a date are the sums, over the rooms active on it, of the   *)
(* values of the rooms' series, each of them a number                       *)
TotalsAreSums(g, row) ==
  LET act == {r.id : r \in ActiveRooms(row.date)}
      cell(id) == DayOf(g.rooms[id], row.date)
  IN  /\ \A id \in act : /\ \E i \in 1..Len(g.rooms[id]) : g.rooms[id][i].date = row.date
                          /\ ~cell(id).bankroll.na
                          /\ ~cell(id).pure_profit.na
      /\ row.total_bankroll = Num(SumOf([id \in act |-> cell(id).bankroll.v], act))
      /\ row.pure_profit = Num(SumOf([id \in act |-> cell(id).pure_profit.v], act))
      /\ row.total_tournaments = Num(SumOf([id \in act |-> cell(id).tournaments.v], act))

Reverse(seq) == [i \in 1..Len(seq) |-> seq[Len(seq) + 1 - i]]

(* C17: the cross-room daily series has one entry for each date on which a  *)
(* room is active (from the room's init_date to today); its total_bankroll, *)
(* pure_profit and total_tournaments are the sums of the reconciled values  *)
(* of exactly the rooms active on that date; the order of the rooms does    *)
(* not matter.                                                              *)
C17_GlobalTotals ==
  GlobalRan =>
    LET g == recon.page.global
    IN  /\ {g.data[k].date : k \in 1..Len(g.data)} = ActiveDates
        /\ Len(g.data) = Cardinality(ActiveDates)
        /\ \A k \in 1..Len(g.data) : TotalsAreSums(g, g.data[k])
        /\ global_stats(Reverse(order_by_id(rooms)), sessions, recon.today,
                        recon.copy_on_write).data = g.data

(* On a build where the assignment to the first row reaches the frame the   *)
(* totals are those sums.                                                   *)
GlobalTotalsWriteThrough ==
  GlobalRan /\ ~recon.copy_on_write =>
    LET g == recon.page.global
    IN  /\ {g.data[k].date : k \in 1..Len(g.data)} = ActiveDates
        /\ Len(g.data) = Cardinality(ActiveDates)
        /\ \A k \in 1..Len(g.data) : TotalsAreSums(g, g.data[k])
        /\ global_stats(Reverse(order_by_id(rooms)), sessions, recon.today,
                        recon.copy_on_write).data = g.data

(* C18: for every room whose init_date is not after today the series        *)
(* global_stats computes inline equals, in date, bankroll, cashflow,        *)
(* tournaments and pure_profit, the series process_room_data returns for    *)
(* the room's sessions dated on or after init_date.                         *)
C18_InlineEqualsProcessRoomData ==
  GlobalRan =>
    \A r \in rooms : r.init_date <= recon.today =>
      /\ recon.page.global.status = "ok"
      /\ recon.page.global.rooms[r.id]
           = room_stats_data(sessions, r, recon.today, recon.copy_on_write).data

(* two rooms with different init_dates, one of them with a session before   *)
(* its init_date and days without session on its grid                       *)
C18_Witness ==
  /\ GlobalRan
  /\ recon.page.global.status = "ok"
  /\ \E r \in rooms, q \in rooms :
       /\ r.init_date < q.init_date /\ q.init_date <= recon.today
       /\ \E x \in sessions : x.room_id = q.id /\ x.date < q.init_date
       /\ Len(recon.page.global.rooms[q.id]) < Len(recon.page.global.rooms[r.id])
       /\ \E i \in 1..Len(recon.page.global.rooms[r.id]) :
            \A x \in sessions : x.room_id = r.id => x.date # recon.page.global.rooms[r.id][i].date

(* the sum of a room's reconciled pure_profit over the days lo..hi *)
ProfitBetween(series, lo, hi) ==
  LET days == {i \in 1..Len(series) : series[i].date >= lo /\ series[i].date <= hi}
  IN  SumOf([i \in days |-> series[i].pure_profit.v], days)

(* C19: for a room whose sessions all lie on or after its init_date, the    *)
(* pure_profit of a row of the session history is (bankroll - cashflow)     *)
(* minus the bankroll of the room's previous session (the initial bankroll  *)
(* for its first session), which is the sum of the reconciled pure_profit   *)
(* over the days after the previous session up to the session's date.       *)
C19_HistoryProfit ==
  recon.page.status = "session_history" =>
    \A row \in recon.page.rows :
      \A r \in rooms, x \in sessions :
        /\ x.id = row.id /\ r.id = x.room_id
        /\ \A y \in sessions : y.room_id = r.id => y.date >= r.init_date
        => LET prev == lag_row({y \in sessions : y.room_id = r.id}, x)
               previous_bankroll == IF prev = {} THEN r.initial_bankroll
                                    ELSE (CHOOSE y \in prev : TRUE).bankroll
               after == IF prev = {} THEN r.init_date
                        ELSE (CHOOSE y \in prev : TRUE).date + 1
               series == room_stats_data(sessions, r, recon.today, recon.copy_on_write).data
           IN  /\ row.pure_profit = (x.bankroll - x.cashflow) - previous_bankroll
               /\ x.date <= recon.today =>
                    /\ \A i \in 1..Len(series) : ~series[i].pure_profit.na
                    /\ row.pure_profit = ProfitBetween(series, after, x.date)

(* C20: the total "Profit Net" of the dashboard (over the rooms, bankroll   *)
(* of the latest session minus total cashflow minus initial bankroll)       *)
(* equals the "Profit Net" of global_stats (the sum of pure_profit over all *)
(* rooms and reconciled days up to today).                                  *)
C20_DashboardEqualsGlobal ==
  /\ recon.page.status = "dashboard" =>
       LET g == global_stats(order_by_id(rooms), sessions, recon.today, recon.copy_on_write)
       IN  g.status = "ok" => recon.page.dashboard.total_net_profit = g.profit_net
  /\ GlobalRan /\ recon.page.global.status = "ok" =>
       recon.page.global.profit_net = dashboard(sessions, rooms).total_net_profit

(* ============ properties of the corrections of initial values =========== *)

(* the series room_stats has just computed is flat at the initial bankroll  *)
(* of the room it was computed for                                          *)
FlatAtInitialBankroll ==
  \A r \in rooms : r.id = call'.id =>
    \A i \in 1..Len(recon'.result.data) :
      /\ recon'.result.data[i].pure_profit = Num(0)
      /\ recon'.result.data[i].bankroll = Num(r.initial_bankroll)

(* C21: for a room created by setup_rooms whose initial bankroll and        *)
(* init_date were then changed any number of times by                       *)
(* edit_initial_bankroll, and with no other session ever recorded, every    *)
(* day of the reconciled series has pure_profit 0 and a bankroll equal to   *)
(* the room's current initial bankroll.                                     *)
C21_CorrectedRoomIsFlat ==
  [][call'.op = "room_stats" /\ call'.outcome = "success" => FlatAtInitialBankroll]_vars

(* A room whose initial values were never corrected has a flat series, on   *)
(* either build: its first day has the initial session.                     *)
UncorrectedRoomIsFlat ==
  [][/\ call'.op = "room_stats" /\ call'.outcome = "success"
     /\ \A k \in 1..Len(edits_history) : edits_history[k].record_id # call'.id
     => FlatAtInitialBankroll]_vars

(* ================== properties of the interleaved handlers ============== *)

(* C22: every session row's room_id is the id of an existing room row, also *)
(* when add_session or a direct update of one user interleaves with         *)
(* delete_room of another; no orphaned session is committed.                *)
C22_NoOrphanSession ==
  \A s \in sessions : \E r \in rooms : r.id = s.room_id

(* What does hold of the interleavings: a session without a room comes from *)
(* an add_session whose list of rooms was read before the room was deleted; *)
(* a direct update leaves no session without a room.                        *)
OrphanOnlyFromStaleRoomList ==
  [][(\E s \in sessions' : \A r \in rooms' : r.id # s.room_id)
     /\ C22_NoOrphanSession
     => /\ call'.op = "add_session"
        /\ \E u \in Users : /\ conns'[u].pc = "committed" /\ conns[u].pc = "logged"
                             /\ conns[u].room_id \in {r.id : r \in conns[u].rooms}
                             /\ conns[u].room_id \notin {r.id : r \in rooms}]_vars

====
